---- MODULE Spec2Model ----
(***************************************************************************)
(* Model of snakeGame/game.py: the SnakeGame object (snake, snake_rect,    *)
(* fruit, fruit_rect, score, direction, board size) and the __main__ loop  *)
(* that alternates playStep() with the handling of the polled events.      *)
(*                                                                         *)
(* Points are pairs <<x, y>>, pygame rectangles are <<x, y, width,         *)
(* height>>, Python's None is the empty tuple.                             *)
(***************************************************************************)
EXTENDS Integers, Sequences, FiniteSets, TLC

VARIABLES
    w, h,          \* self.w, self.h
    direction,     \* self.direction
    score,         \* self.score
    fruit,         \* self.fruit (None or a point)
    fruit_rect,    \* self.fruit_rect (unset until the first createFruit)
    snake,         \* self.snake, head first
    snake_rect,    \* self.snake_rect, parallel to self.snake
    running,       \* the loop variable `running` of __main__
    event,         \* the loop variable `event` of the for loop ("none" outside it)
    displayUp,     \* FALSE once pygame.quit() has shut the display down
    pc,            \* position of __main__: playStep, createFruit, events, done, crashed
    ret,           \* value returned by the last completed playStep ("none" before it)
    lastDir,       \* direction the last move() used ("none" before the first)
    ate,           \* what updateScore() returned inside the last move()
    popped,        \* the segment the last move() popped (None if it popped nothing)
    ticks          \* number of playStep calls so far

vars == <<w, h, direction, score, fruit, fruit_rect, snake, snake_rect,
          running, event, displayUp, pc, ret, lastDir, ate, popped, ticks>>

game == <<w, h, direction, score, fruit, fruit_rect, snake, snake_rect>>

----------------------------------------------------------------------------
(* Constants of the program *)

BLOCK == 20

(* Bound of the model: the while loop is followed for MaxTicks calls of
   playStep. On a board of 4 x 2 cells six ticks are enough for the snake
   to eat five times and cover every cell. *)
MaxTicks == 6

(* Bounds of the model: the board is BoardCols x BoardRows cells of BLOCK
   pixels. The program's one constructor call, SnakeGame(), takes the
   defaults w = 1000, h = 600, which is BoardCols = 50 and BoardRows = 30;
   the model follows the game on a board of 4 x 2 cells, the smallest one
   on which the snake can turn round, eat and fill the board. *)
BoardCols == 4

BoardRows == 2

None == <<>>

Directions == {"RIGHT", "LEFT", "UP", "DOWN"}

DirValue(d) ==
    CASE d = "RIGHT" -> <<1, 0>>
      [] d = "LEFT"  -> <<-1, 0>>
      [] d = "UP"    -> <<0, -1>>
      [] d = "DOWN"  -> <<0, 1>>

Events == {"K_UP", "K_DOWN", "K_LEFT", "K_RIGHT", "K_ESCAPE", "K_OTHER", "QUIT"}

(* Boards the game is constructed on: (w, h) pairs in pixels, both
   multiples of BLOCK as the defaults 1000 and 600 are, and so both even:
   the head Point(w/2, h/2) has whole coordinates. *)
Boards == {<<BoardCols * BLOCK, BoardRows * BLOCK>>}

----------------------------------------------------------------------------
(* pygame.Rect and its collision tests *)

Rect(x, y) == <<x, y, BLOCK, BLOCK>>

colliderect(a, b) ==
    /\ a[1] < b[1] + b[3]
    /\ b[1] < a[1] + a[3]
    /\ a[2] < b[2] + b[4]
    /\ b[2] < a[2] + a[4]

(* index (from 0) of the first rectangle of the list that collides, else -1 *)
collidelist(r, rects) ==
    IF \E i \in 1..Len(rects) : colliderect(r, rects[i])
    THEN (CHOOSE i \in 1..Len(rects) :
            /\ colliderect(r, rects[i])
            /\ \A j \in 1..(i - 1) : ~colliderect(r, rects[j])) - 1
    ELSE -1

Front(s) == SubSeq(s, 1, Len(s) - 1)

----------------------------------------------------------------------------
(* SnakeGame methods as functions of the object's fields *)

initSnake(w0, h0) ==
    LET head == <<w0 \div 2, h0 \div 2>> IN
    << head, <<head[1] - BLOCK, head[2]>>, <<head[1] - 2 * BLOCK, head[2]>> >>

rectsOf(sn) == [i \in 1..Len(sn) |-> Rect(sn[i][1], sn[i][2])]

(* variant of newHead: the direction's y component is used for x as well *)
newHead_UsesYTwice(sn, d) ==
    << DirValue(d)[2] * BLOCK + sn[1][1], DirValue(d)[2] * BLOCK + sn[1][2] >>

newHead(sn, d) ==
    << DirValue(d)[1] * BLOCK + sn[1][1], DirValue(d)[2] * BLOCK + sn[1][2] >>

(* variant of updateScore: compares positions instead of rectangles *)
updateScore_SamePosition(fr, frRect, snRects) ==
    IF fr # None
    THEN fr = <<snRects[1][1], snRects[1][2]>>
    ELSE FALSE

(* updateScore(): the head's rectangle is tested against the fruit's *)
updateScore(fr, frRect, snRects) ==
    IF fr # None
    THEN colliderect(frRect, snRects[1])
    ELSE FALSE

(* variant of move: pops the tail whether or not the fruit was eaten *)
move_PopsAlways(sn, snRects, fr, frRect, sc, d) ==
    LET hd       == newHead(sn, d)
        inserted == <<hd>> \o sn
        insRects == <<Rect(hd[1], hd[2])>> \o snRects
        eaten    == updateScore(fr, frRect, insRects)
    IN  [ snake      |-> Front(inserted),
          snake_rect |-> Front(insRects),
          fruit      |-> IF eaten THEN None ELSE fr,
          score      |-> IF eaten THEN sc + 1 ELSE sc,
          ate        |-> eaten,
          popped     |-> inserted[Len(inserted)] ]

(* variant of move: never pops the tail *)
move_NeverPops(sn, snRects, fr, frRect, sc, d) ==
    LET hd       == newHead(sn, d)
        inserted == <<hd>> \o sn
        insRects == <<Rect(hd[1], hd[2])>> \o snRects
        eaten    == updateScore(fr, frRect, insRects)
    IN  [ snake      |-> inserted,
          snake_rect |-> insRects,
          fruit      |-> IF eaten THEN None ELSE fr,
          score      |-> IF eaten THEN sc + 1 ELSE sc,
          ate        |-> eaten,
          popped     |-> None ]

(* variant of move: the score goes up on every move *)
move_ScoresEveryMove(sn, snRects, fr, frRect, sc, d) ==
    LET hd       == newHead(sn, d)
        inserted == <<hd>> \o sn
        insRects == <<Rect(hd[1], hd[2])>> \o snRects
        eaten    == updateScore(fr, frRect, insRects)
    IN  [ snake      |-> IF eaten THEN inserted ELSE Front(inserted),
          snake_rect |-> IF eaten THEN insRects ELSE Front(insRects),
          fruit      |-> IF eaten THEN None ELSE fr,
          score      |-> sc + 1,
          ate        |-> eaten,
          popped     |-> IF eaten THEN None ELSE inserted[Len(inserted)] ]

(* variant of move: snake_rect keeps its last rectangle when snake pops *)
move_KeepsRectTail(sn, snRects, fr, frRect, sc, d) ==
    LET hd       == newHead(sn, d)
        inserted == <<hd>> \o sn
        insRects == <<Rect(hd[1], hd[2])>> \o snRects
        eaten    == updateScore(fr, frRect, insRects)
    IN  [ snake      |-> IF eaten THEN inserted ELSE Front(inserted),
          snake_rect |-> insRects,
          fruit      |-> IF eaten THEN None ELSE fr,
          score      |-> IF eaten THEN sc + 1 ELSE sc,
          ate        |-> eaten,
          popped     |-> IF eaten THEN None ELSE inserted[Len(inserted)] ]

(* move(): the fields after the call, and what updateScore returned *)
move(sn, snRects, fr, frRect, sc, d) ==
    LET hd       == newHead(sn, d)
        inserted == <<hd>> \o sn
        insRects == <<Rect(hd[1], hd[2])>> \o snRects
        eaten    == updateScore(fr, frRect, insRects)
    IN  [ snake      |-> IF eaten THEN inserted ELSE Front(inserted),
          snake_rect |-> IF eaten THEN insRects ELSE Front(insRects),
          fruit      |-> IF eaten THEN None ELSE fr,
          score      |-> IF eaten THEN sc + 1 ELSE sc,
          ate        |-> eaten,
          popped     |-> IF eaten THEN None ELSE inserted[Len(inserted)] ]

(* variant of isGameOver: the head is not tested against the body *)
isGameOver_BoundsOnly(sn, snRects, w0, h0) ==
    \/ ~(0 <= sn[1][1] /\ sn[1][1] <= w0 - BLOCK)
    \/ ~(0 <= sn[1][2] /\ sn[1][2] <= h0 - BLOCK)

(* variant of isGameOver: the right edge is tested against w, not w-BLOCK *)
isGameOver_WidthBound(sn, snRects, w0, h0) ==
    \/ collidelist(snRects[1], Tail(snRects)) # -1
    \/ ~(0 <= sn[1][1] /\ sn[1][1] <= w0)
    \/ ~(0 <= sn[1][2] /\ sn[1][2] <= h0 - BLOCK)

isGameOver(sn, snRects, w0, h0) ==
    \/ collidelist(snRects[1], Tail(snRects)) # -1
    \/ ~(0 <= sn[1][1] /\ sn[1][1] <= w0 - BLOCK)
    \/ ~(0 <= sn[1][2] /\ sn[1][2] <= h0 - BLOCK)

(* variant of the loop condition: only the head's rectangle is tested *)
createFruitRejects_HeadOnly(rect, snRects) == colliderect(rect, snRects[1])

(* variant of the loop condition: the head's rectangle is not tested *)
createFruitRejects_BodyOnly(rect, snRects) == collidelist(rect, Tail(snRects)) # -1

(* the loop condition of createFruit(): the drawn rectangle is rejected *)
createFruitRejects(rect, snRects) == collidelist(rect, snRects) # -1

(* variant of the key tests: K_LEFT is accepted whatever the direction *)
keyDirection_LeftUnguarded(key, d) ==
    LET d1 == IF key = "K_UP" /\ d # "DOWN" THEN "UP"
              ELSE IF key = "K_DOWN" /\ d # "UP" THEN "DOWN"
              ELSE d
    IN  IF key = "K_LEFT" THEN "LEFT"
        ELSE IF key = "K_RIGHT" /\ d1 # "LEFT" THEN "RIGHT"
        ELSE d1

(* the key tests of the event loop: the direction after one KEYDOWN *)
keyDirection(key, d) ==
    LET d1 == IF key = "K_UP" /\ d # "DOWN" THEN "UP"
              ELSE IF key = "K_DOWN" /\ d # "UP" THEN "DOWN"
              ELSE d
    IN  IF key = "K_LEFT" /\ d1 # "RIGHT" THEN "LEFT"
        ELSE IF key = "K_RIGHT" /\ d1 # "LEFT" THEN "RIGHT"
        ELSE d1

----------------------------------------------------------------------------
(* The state after game = SnakeGame(); running = True *)

Init ==
    /\ \E b \in Boards : w = b[1] /\ h = b[2]
    /\ direction = "RIGHT"
    /\ score = 0
    /\ fruit = None
    /\ fruit_rect = None
    /\ snake = initSnake(w, h)
    /\ snake_rect = rectsOf(snake)
    /\ running = TRUE
    /\ event = "none"
    /\ displayUp = TRUE
    /\ pc = "playStep"
    /\ ret = "none"
    /\ lastDir = "none"
    /\ ate = FALSE
    /\ popped = None
    /\ ticks = 0

(* variant of playStep: returns True without calling createFruit *)
PlayStep_SkipsCreateFruit ==
    /\ pc = "playStep"
    /\ ticks < MaxTicks
    /\ ticks' = ticks + 1
    /\ IF ~displayUp
       THEN /\ pc' = "crashed"
            /\ UNCHANGED <<game, running, event, displayUp, ret, lastDir, ate, popped>>
       ELSE LET m == move(snake, snake_rect, fruit, fruit_rect, score, direction) IN
            /\ snake' = m.snake
            /\ snake_rect' = m.snake_rect
            /\ fruit' = m.fruit
            /\ score' = m.score
            /\ ate' = m.ate
            /\ popped' = m.popped
            /\ lastDir' = direction
            /\ IF isGameOver(m.snake, m.snake_rect, w, h)
               THEN pc' = "events" /\ running' = FALSE /\ ret' = "False"
               ELSE pc' = "events" /\ running' = TRUE /\ ret' = "True"
            /\ UNCHANGED <<w, h, direction, fruit_rect, event, displayUp>>

(* Arguments SnakeGame(w, h) can be constructed with: the boards above and
   boards with a side BLOCK does not divide; __init__ stores w and h as
   given, without a test. *)
Configs == Boards \cup {<<70, 40>>, <<80, 30>>}

(* The state after game = SnakeGame(w, h); running = True, for any of the
   configurations *)
InitAnyBoard ==
    /\ \E b \in Configs : w = b[1] /\ h = b[2]
    /\ direction = "RIGHT"
    /\ score = 0
    /\ fruit = None
    /\ fruit_rect = None
    /\ snake = initSnake(w, h)
    /\ snake_rect = rectsOf(snake)
    /\ running = TRUE
    /\ event = "none"
    /\ displayUp = TRUE
    /\ pc = "playStep"
    /\ ret = "none"
    /\ lastDir = "none"
    /\ ate = FALSE
    /\ popped = None
    /\ ticks = 0

(* running = game.playStep(), up to the point where playStep returns or
   enters createFruit(). On a display that pygame.quit() has shut down the
   first statement, self.sc.fill, raises pygame.error. *)
PlayStep ==
    /\ pc = "playStep"
    /\ ticks < MaxTicks
    /\ ticks' = ticks + 1
    /\ IF ~displayUp
       THEN /\ pc' = "crashed"
            /\ UNCHANGED <<game, running, event, displayUp, ret, lastDir, ate, popped>>
       ELSE LET m == move(snake, snake_rect, fruit, fruit_rect, score, direction) IN
            /\ snake' = m.snake
            /\ snake_rect' = m.snake_rect
            /\ fruit' = m.fruit
            /\ score' = m.score
            /\ ate' = m.ate
            /\ popped' = m.popped
            /\ lastDir' = direction
            /\ IF isGameOver(m.snake, m.snake_rect, w, h)
               THEN pc' = "events" /\ running' = FALSE /\ ret' = "False"
               ELSE IF m.fruit = None
                    THEN pc' = "createFruit" /\ UNCHANGED <<running, ret>>
                    ELSE pc' = "events" /\ running' = TRUE /\ ret' = "True"
            /\ UNCHANGED <<w, h, direction, fruit_rect, event, displayUp>>

(* variant of createFruit: x and y are drawn up to w and h *)
CreateFruit_DrawsToEdge ==
    /\ pc = "createFruit"
    /\ \E x \in 0..w, y \in 0..h :
          IF createFruitRejects(Rect(x, y), snake_rect)
          THEN UNCHANGED vars
          ELSE /\ fruit' = <<x, y>>
               /\ fruit_rect' = Rect(x, y)
               /\ pc' = "events"
               /\ running' = TRUE
               /\ ret' = "True"
               /\ UNCHANGED <<w, h, direction, score, snake, snake_rect,
                              event, displayUp, lastDir, ate, popped, ticks>>

(* one round of createFruit()'s sampling: a drawn position that collides
   with the snake is drawn again, another becomes the fruit and playStep
   returns True *)
CreateFruit ==
    /\ pc = "createFruit"
    /\ \E x \in 0..(w - BLOCK), y \in 0..(h - BLOCK) :
          IF createFruitRejects(Rect(x, y), snake_rect)
          THEN UNCHANGED vars
          ELSE /\ fruit' = <<x, y>>
               /\ fruit_rect' = Rect(x, y)
               /\ pc' = "events"
               /\ running' = TRUE
               /\ ret' = "True"
               /\ UNCHANGED <<w, h, direction, score, snake, snake_rect,
                              event, displayUp, lastDir, ate, popped, ticks>>

(* the body of `for event in pygame.event.get()` for one event *)
HandleEvent(e) ==
    /\ pc = "events"
    /\ event' = e
    /\ running' = IF e = "K_ESCAPE" THEN FALSE ELSE running
    /\ displayUp' = IF e \in {"K_ESCAPE", "QUIT"} THEN FALSE ELSE displayUp
    /\ direction' = keyDirection(e, direction)
    /\ UNCHANGED <<w, h, score, fruit, fruit_rect, snake, snake_rect,
                   pc, ret, lastDir, ate, popped, ticks>>

(* variant of the loop test: the loop goes on whatever `running` is *)
EndEvents_IgnoresRunning ==
    /\ pc = "events"
    /\ pc' = "playStep"
    /\ event' = "none"
    /\ UNCHANGED <<game, running, displayUp, ret, lastDir, ate, popped, ticks>>

(* the for loop is exhausted: `while(running)` is tested again *)
EndEvents ==
    /\ pc = "events"
    /\ pc' = IF running THEN "playStep" ELSE "done"
    /\ event' = "none"
    /\ UNCHANGED <<game, running, displayUp, ret, lastDir, ate, popped, ticks>>

Next ==
    \/ PlayStep
    \/ CreateFruit
    \/ \E e \in Events : HandleEvent(e)
    \/ EndEvents

Spec == Init /\ [][Next]_vars

SpecAnyBoard == InitAnyBoard /\ [][Next]_vars

----------------------------------------------------------------------------
(* Vocabulary of the properties, stated on positions rather than on
   rectangles *)

Opposite(d) ==
    CASE d = "RIGHT" -> "LEFT"
      [] d = "LEFT"  -> "RIGHT"
      [] d = "UP"    -> "DOWN"
      [] d = "DOWN"  -> "UP"
      [] OTHER       -> "none"

KeyOf(d) ==
    CASE d = "RIGHT" -> "K_RIGHT"
      [] d = "LEFT"  -> "K_LEFT"
      [] d = "UP"    -> "K_UP"
      [] d = "DOWN"  -> "K_DOWN"

(* the head shares its cell with another segment *)
HeadOnSegment(sn) == \E i \in 2..Len(sn) : sn[i] = sn[1]

(* the head lies outside [0, w0-BLOCK] x [0, h0-BLOCK] *)
HeadOutside(sn, w0, h0) ==
    \/ sn[1][1] < 0 \/ sn[1][1] > w0 - BLOCK
    \/ sn[1][2] < 0 \/ sn[1][2] > h0 - BLOCK

(* the BLOCK x BLOCK cells at positions p and q intersect *)
CellsMeet(p, q) ==
    /\ p[1] - q[1] < BLOCK /\ q[1] - p[1] < BLOCK
    /\ p[2] - q[2] < BLOCK /\ q[2] - p[2] < BLOCK

(* old head + direction * BLOCK *)
NextHead ==
    << snake[1][1] + BLOCK * DirValue(direction)[1],
       snake[1][2] + BLOCK * DirValue(direction)[2] >>

(* a step in which playStep runs move() and isGameOver() *)
MoveStep == pc = "playStep" /\ pc' \in {"events", "createFruit"}

(* a step in which one polled event is handled *)
EventStep == pc = "events" /\ pc' = "events"

----------------------------------------------------------------------------
(* C1: a tick returns False if and only if, in the post-move snake, the new
   head is on the cell of another segment or outside
   [0, w-BLOCK] x [0, h-BLOCK]; the snake does not change between two ticks,
   so the last returned value and the current snake are compared. *)
C1_DeadIffHeadIllegal ==
    (ret = "False") <=> (HeadOnSegment(snake) \/ HeadOutside(snake, w, h))

(* the head has moved onto the cell the tail has just vacated, and the tick
   returned True *)
C1_Witness ==
    /\ ret = "True"
    /\ pc = "events"
    /\ popped = snake[1]

(* C2, as claimed: a tick never moves the head in the exact opposite of the
   direction the preceding tick moved it in. *)
C2_NoReversalBetweenTicks ==
    [][(MoveStep /\ lastDir # "none") => direction # Opposite(lastDir)]_vars

(* C3: one directional key event for d sets direction to d unless d is the
   opposite of the direction held when the event is handled, in which case
   direction is unchanged; the direction is then the one the next tick
   uses; no event changes the snake, the score or the fruit. *)
C3_KeyEvent ==
    [][ /\ EventStep =>
            /\ \A d \in Directions :
                 event' = KeyOf(d) =>
                    direction' = IF d # Opposite(direction) THEN d ELSE direction
            /\ snake' = snake /\ score' = score /\ fruit' = fruit
        /\ (pc = "events" /\ pc' = "playStep") => direction' = direction
        /\ MoveStep => lastDir' = direction /\ snake'[1] = NextHead
      ]_vars

(* a request for the opposite direction has been handled and ignored *)
C3_Witness ==
    /\ pc = "events"
    /\ event = "K_LEFT"
    /\ direction = "RIGHT"

(* C4: move() inserts old head + direction * BLOCK at the front; without
   eating the snake is the new head followed by the old snake without its
   last segment, with eating the new head followed by the whole old snake.
   On the 100 x 100 board, [(50,50),(30,50),(10,50)] moving RIGHT gives
   [(70,50),(50,50),(30,50)], alive. *)
C4_MoveShape ==
    [][MoveStep =>
         /\ snake' = IF ate' THEN <<NextHead>> \o snake
                             ELSE <<NextHead>> \o Front(snake)
         /\ LET ex == << <<50, 50>>, <<30, 50>>, <<10, 50>> >>
                m  == move(ex, rectsOf(ex), None, None, 0, "RIGHT")
            IN  /\ m.snake = << <<70, 50>>, <<50, 50>>, <<30, 50>> >>
                /\ ~isGameOver(m.snake, m.snake_rect, 100, 100)
      ]_vars

(* a tick that ate has put the new head in front of the whole old snake *)
C4_Witness ==
    /\ ate
    /\ Len(snake) = 5
    /\ ret = "True"

(* C5: in a tick whose new head comes onto the fruit, move() makes the
   snake one longer, the score one higher and the fruit None; the rest of
   the tick (createFruit) leaves the score alone. *)
C5_EatGrowsByOne ==
    [][ /\ (MoveStep /\ fruit # None /\ CellsMeet(NextHead, fruit)) =>
              /\ Len(snake') = Len(snake) + 1
              /\ score' = score + 1
              /\ fruit' = None
        /\ pc = "createFruit" => score' = score
      ]_vars

(* move() has just eaten: the fruit is None and playStep is about to place
   a new one *)
C5_Witness ==
    /\ pc = "createFruit"
    /\ ate
    /\ fruit = None
    /\ score = 2

(* C6: as long as no fruit has been consumed the snake has its initial
   length 3, and a move() whose new head does not come onto a fruit leaves
   the length, the score and the fruit unchanged. *)
C6_NoEatKeepsLength ==
    /\ [](score = 0 => Len(snake) = 3)
    /\ [][(MoveStep /\ (fruit = None \/ ~CellsMeet(NextHead, fruit))) =>
             /\ Len(snake') = Len(snake)
             /\ score' = score
             /\ fruit' = fruit
         ]_vars

(* several ticks have passed, one of them a turn, and nothing was eaten *)
C6_Witness ==
    /\ ticks = 4
    /\ score = 0
    /\ ret = "True"
    /\ fruit # None
    /\ lastDir = "LEFT"

(* C7: when createFruit returns, the fruit is within
   [0, w-BLOCK] x [0, h-BLOCK] and its cell meets no segment of the snake of
   that moment, the head included. *)
C7_FruitClearOfSnake ==
    [][(pc = "createFruit" /\ pc' = "events") =>
         /\ fruit' \in (0..(w - BLOCK)) \X (0..(h - BLOCK))
         /\ \A i \in 1..Len(snake') : ~CellsMeet(fruit', snake'[i])
      ]_vars

(* createFruit has returned in the tick in which the snake grew *)
C7_Witness ==
    /\ pc = "events"
    /\ ate
    /\ fruit # None
    /\ Len(snake) = 4
    /\ event = "none"

(* C8, as claimed: every snake segment and the fruit, when present, have
   coordinates that are multiples of BLOCK (on a board whose centre is on
   the grid, as on the default 1000 x 600 one). *)
C8_GridAligned ==
    ((w \div 2) % BLOCK = 0 /\ (h \div 2) % BLOCK = 0) =>
        /\ \A i \in 1..Len(snake) :
              snake[i][1] % BLOCK = 0 /\ snake[i][2] % BLOCK = 0
        /\ fruit # None => (fruit[1] % BLOCK = 0 /\ fruit[2] % BLOCK = 0)

(* C9, as claimed: move() consumes the fruit exactly when a fruit exists and
   the new head's position equals the fruit's position. *)
C9_EatIffSamePosition ==
    [][MoveStep => (ate' <=> (fruit # None /\ NextHead = fruit))]_vars

(* C10: playStep returning False is the only way into OVER, and OVER is
   terminal: playStep is not called again, the returned value stays False
   and the snake, the score and the fruit never change again. *)
C10_OverIsTerminal ==
    /\ [](ret = "False" => (pc \in {"events", "done"} /\ ~running))
    /\ [][ /\ (ret # "False" /\ ret' = "False") => pc = "playStep"
           /\ ret = "False" =>
                /\ ret' = "False"
                /\ pc' # "playStep"
                /\ snake' = snake /\ score' = score /\ fruit' = fruit
         ]_vars

(* the game is over and the while loop has been left *)
C10_Witness ==
    /\ ret = "False"
    /\ pc = "done"
    /\ displayUp

(* C11, as claimed: once a quit signal (K_ESCAPE or QUIT) has shut the
   display down, the loop stops: it is handling the rest of the polled
   events or has exited, playStep is not reached again and nothing raises. *)
C11_QuitStopsLoop ==
    ~displayUp => pc \in {"events", "done"}

(* C12: the score starts at 0, is never negative, and in every step it
   either stays or goes up by exactly 1, the latter exactly in the move()
   in which a present fruit is consumed. *)
C12_ScoreCountsFruit ==
    /\ [](ticks = 0 => score = 0)
    /\ [](score >= 0)
    /\ [][ IF MoveStep /\ fruit # None /\ fruit' = None
           THEN score' = score + 1
           ELSE score' = score ]_vars

(* three fruits have been consumed and the game goes on *)
C12_Witness ==
    /\ score = 3
    /\ ret = "True"
    /\ pc = "playStep"

(* C13: when a playStep has returned True a fruit is present; the fruit is
   None only before the first playStep has returned, inside a playStep that
   is placing it, or after a playStep has returned False. *)
C13_FruitPresentAfterTick ==
    fruit = None => (ret = "none" \/ pc = "createFruit" \/ ret = "False")

(* the tick that ate the fruit has placed the next one before returning *)
C13_Witness ==
    /\ ate
    /\ ret = "True"
    /\ pc = "events"
    /\ fruit # None
    /\ score = 3

(* C14: while the game is not over (after __init__, and after or inside a
   playStep that has not returned False) the snake has at least one segment
   and no two segments are at the same position; two segments coincide
   only once a playStep has returned False. *)
C14_SegmentsDistinct ==
    ret # "False" =>
        /\ Len(snake) >= 1
        /\ \A i, j \in 1..Len(snake) : i # j => snake[i] # snake[j]

(* a grown snake that has turned twice and is still running *)
C14_Witness ==
    /\ ret = "True"
    /\ Len(snake) = 6
    /\ snake[1][2] # snake[3][2]
    /\ pc = "events"

(* C15, as claimed: whenever the sampling loop of createFruit runs, it can
   end: some position of the board is accepted, so that fair sampling
   leaves the loop. *)
C15_SamplingCanEnd ==
    pc = "createFruit" =>
        \E x \in 0..(w - BLOCK), y \in 0..(h - BLOCK) :
            \A i \in 1..Len(snake) : ~CellsMeet(<<x, y>>, snake[i])

(* a width or height that is not positive or that BLOCK does not divide *)
Malformed(w0, h0) ==
    \/ w0 <= 0 \/ h0 <= 0
    \/ w0 % BLOCK # 0 \/ h0 % BLOCK # 0

(* C16, as claimed: a malformed configuration is rejected at construction,
   so no tick ever runs on a game with such dimensions. *)
C16_MalformedRejected ==
    Malformed(w, h) => ticks = 0

(* C17: while the game is not over, a present fruit's cell meets no snake
   segment; in a move() no segment behind the new head comes to meet the
   fruit, and a new head that meets it consumes it. *)
C17_FruitStaysClear ==
    /\ []((fruit # None /\ ret # "False") =>
             \A i \in 1..Len(snake) : ~CellsMeet(fruit, snake[i]))
    /\ [][(MoveStep /\ fruit # None) =>
             /\ \A i \in 2..Len(snake') : ~CellsMeet(fruit, snake'[i])
             /\ CellsMeet(fruit, snake'[1]) => fruit' = None
         ]_vars

(* the fruit has stayed on the board, untouched, while the snake moved
   three times past it *)
C17_Witness ==
    /\ ticks = 4
    /\ score = 0
    /\ ret = "True"
    /\ fruit # None
    /\ fruit[1] % BLOCK # 0

(* C18: no tick both consumes the fruit and ends the game: a playStep that
   returns False leaves the score and the snake length as they were. *)
C18_FatalTickEatsNothing ==
    /\ [](ret = "False" => ~ate)
    /\ [][(MoveStep /\ ret' = "False") =>
             /\ score' = score
             /\ Len(snake') = Len(snake)
         ]_vars

(* the game has ended, with fruit eaten before the fatal tick *)
C18_Witness ==
    /\ ret = "False"
    /\ score = 2
    /\ fruit # None

(* C19: outside move() the score is the snake length minus 3, and snake and
   snake_rect have the same length, snake_rect[i] being the BLOCK x BLOCK
   rectangle at snake[i]. *)
C19_ScoreAndRectsInSync ==
    /\ score = Len(snake) - 3
    /\ Len(snake_rect) = Len(snake)
    /\ \A i \in 1..Len(snake) :
          snake_rect[i] = <<snake[i][1], snake[i][2], BLOCK, BLOCK>>

(* the snake has both grown and shifted *)
C19_Witness ==
    /\ score = 2
    /\ Len(snake) = 5
    /\ ~ate
    /\ ret = "True"

(* C20: consecutive segments differ by exactly BLOCK in one coordinate and
   by 0 in the other, in every state; after a playStep that returned True
   every segment lies within [0, w-BLOCK] x [0, h-BLOCK]. *)
C20_ConnectedAndOnBoard ==
    /\ \A i \in 1..(Len(snake) - 1) :
          LET dx == snake[i][1] - snake[i + 1][1]
              dy == snake[i][2] - snake[i + 1][2]
          IN  \/ (dx \in {BLOCK, -BLOCK} /\ dy = 0)
              \/ (dx = 0 /\ dy \in {BLOCK, -BLOCK})
    /\ ret = "True" =>
          \A i \in 1..Len(snake) :
              /\ 0 <= snake[i][1] /\ snake[i][1] <= w - BLOCK
              /\ 0 <= snake[i][2] /\ snake[i][2] <= h - BLOCK

(* a snake with a bend, running, its head in a corner of the board *)
C20_Witness ==
    /\ ret = "True"
    /\ snake[1] = <<0, 0>>
    /\ Len(snake) >= 4
    /\ snake[Len(snake)][2] # 0

====
